---- MODULE Spec2Model ----
(***************************************************************************)
(* Model of src/main.py: a FastAPI process with two handlers that relay    *)
(* user text to a completion API and then to a text-to-speech service.     *)
(*   POST /chat   chat_with_gpt        (lines 57-101)                      *)
(*   WS   /ws/ai  websocket_endpoint   (lines 104-153)                     *)
(*   generate_tts_audio                (lines 155-176)                     *)
(* Both handlers are coroutines of one event loop; the outbound calls are  *)
(* made with the synchronous requests.post, so the thread of the event     *)
(* loop stays with the calling handler until the call has returned.        *)
(***************************************************************************)
EXTENDS Integers, Sequences, FiniteSets, TLC

\* ------------------------------------------------------------- bounds
\* Text frames plus binary frames one peer sends on one connection.
MaxMsgs == 2

\* POST /chat requests and /ws/ai connections of one run.
Posts == {"p1"}
Sessions == {"s1"}
Tasks == Posts \cup Sessions
NoTask == "none"

\* Input texts of the POST /chat requests (RequestBody.user_input).
Inputs == {"hello"}

\* The text of the k-th frame of a peer: consecutive messages differ.
InputOf(k) == IF k % 2 = 1 THEN "hello" ELSE "bye"

\* ------------------------------------------------------------- JSON values
\* A JSON value as Python sees it: a number (in tenths), a string or None.
Num(n) == [t |-> "num", n |-> n, s |-> ""]
Str(s) == [t |-> "str", n |-> 0, s |-> s]
Null == [t |-> "null", n |-> 0, s |-> ""]
\* A Python name that is not bound yet.
Unset == [t |-> "unset", n |-> 0, s |-> ""]

\* ------------------------------------------------------------- configuration
\* os.getenv gives None for an unset variable and "" for an empty one.
EnvValues == {"unset", "", "value"}

\* Truthiness of an os.getenv result.
Truthy(v) == v = "value"

\* The check at module import: both values are needed to go on.
ConfigLoaded_either(cfg) == Truthy(cfg.OPENAI_API_KEY) \/ Truthy(cfg.TTS_SERVER_URL)

ConfigLoaded(cfg) == Truthy(cfg.OPENAI_API_KEY) /\ Truthy(cfg.TTS_SERVER_URL)

\* The persona constant.
system_message == "Try to keep your responses under 150 tokens ..."

\* ------------------------------------------------------------- upstream answers
\* What requests.post gives: an exception (exc), or a response with its
\* status code, its raw text, how the body parses as JSON ("invalid": json()
\* raises; "array": a JSON value that is not an object; "object"), whether
\* the looked-up path or key is there (has) and the value found (val).
Resp(exc, code, text, json, has, val) ==
    [exc |-> exc, status_code |-> code, text |-> text, json |-> json,
     has |-> has, val |-> val]

NoResp == Resp(FALSE, -1, "", "invalid", FALSE, Unset)

\* Answers of the completion service.
CompResponses ==
    { Resp(TRUE, 0, "", "invalid", FALSE, Unset),
      Resp(FALSE, 429, "rate limited", "invalid", FALSE, Unset),
      Resp(FALSE, 200, "<html>", "invalid", FALSE, Unset),
      Resp(FALSE, 200, "{}", "object", FALSE, Unset),
      Resp(FALSE, 200, "{content: null}", "object", TRUE, Null),
      Resp(FALSE, 200, "{content: hi there}", "object", TRUE, Str("hi there")) }

\* Answers of the speech service.
TtsResponses ==
    { Resp(TRUE, 0, "", "invalid", FALSE, Unset),
      Resp(FALSE, 500, "tts down", "invalid", FALSE, Unset),
      Resp(FALSE, 200, "<html>", "invalid", FALSE, Unset),
      Resp(FALSE, 200, "[1]", "array", FALSE, Unset),
      Resp(FALSE, 200, "{}", "object", FALSE, Unset),
      Resp(FALSE, 200, "{audio_length: null}", "object", TRUE, Null),
      Resp(FALSE, 200, "{audio_length: 2.5}", "object", TRUE, Num(25)) }

\* ------------------------------------------------------------- exceptions
Exc(type, code, detail) == [type |-> type, status_code |-> code, detail |-> detail]
NoExc == Exc("none", 0, "")

\* `except Exception` catches every exception class the handlers meet:
\* HTTPException, WebSocketDisconnect, KeyError, RuntimeError and the
\* exceptions of requests all derive from Exception.
CaughtByException(e) == e.type # "none"

\* `except WebSocketDisconnect` catches that class alone.
CaughtByWebSocketDisconnect(e) == e.type = "WebSocketDisconnect"

\* ------------------------------------------------------------- pure parts
\* response.json()["choices"][0]["message"]["content"]: raises when the
\* body is not JSON or the path is missing, else gives the value found.
ExtractText(resp) ==
    IF resp.json = "invalid" THEN [raised |-> TRUE, exc |-> Exc("JSONDecodeError", 0, ""), val |-> Unset]
    ELSE IF ~resp.has THEN [raised |-> TRUE, exc |-> Exc("KeyError", 0, ""), val |-> Unset]
    ELSE [raised |-> FALSE, exc |-> NoExc, val |-> resp.val]

\* generate_tts_audio, given the answer of the speech service to its call.
generate_tts_audio_none(resp) ==
    IF resp.exc THEN Num(0)
    ELSE IF resp.status_code = 200
         THEN IF resp.json = "invalid" THEN Num(0)
              ELSE IF resp.json # "object" THEN Null
              ELSE IF resp.has THEN resp.val ELSE Num(0)
         ELSE Null

generate_tts_audio_zero(resp) == Num(0)

generate_tts_audio(resp) ==
    IF resp.exc THEN Num(0)
    ELSE IF resp.status_code = 200
         THEN IF resp.json = "invalid" THEN Num(0)
              ELSE IF resp.json # "object" THEN Num(0)
              ELSE IF resp.has THEN resp.val ELSE Num(0)
         ELSE Num(0)

\* ------------------------------------------------------------- POST /chat
\* The result of one request: a returned body (status 200) or an
\* HTTPException (status and detail).
HttpOk(text, audio) ==
    [status_code |-> 200, detail |-> "", response |-> text, audio_length |-> audio]
HttpError(e) ==
    [status_code |-> e.status_code, detail |-> e.detail, response |-> Unset,
     audio_length |-> Unset]
NoHttp == [status_code |-> 0, detail |-> "", response |-> Unset, audio_length |-> Unset]

\* Lines 83-97 up to the synthesis call: what the try body does with the
\* answer of the completion service.
ChatTryBody(resp) ==
    IF resp.exc THEN [next |-> "raise", exc |-> Exc("ConnectionError", 0, ""), text |-> Unset]
    ELSE IF resp.status_code = 200
         THEN IF ExtractText(resp).raised
              THEN [next |-> "raise", exc |-> ExtractText(resp).exc, text |-> Unset]
              ELSE [next |-> "tts", exc |-> NoExc, text |-> ExtractText(resp).val]
         ELSE [next |-> "raise",
               exc |-> Exc("HTTPException", resp.status_code, resp.text),
               text |-> Unset]

\* Lines 99-101: the handler of the try block.
ChatExcept_leak(e) ==
    IF CaughtByException(e) THEN Exc("HTTPException", 500, e.type) ELSE e

ChatExcept_reraise(e) ==
    IF e.type = "HTTPException" THEN e
    ELSE IF CaughtByException(e) THEN Exc("HTTPException", 500, "Internal server error.")
    ELSE e

ChatExcept(e) ==
    IF CaughtByException(e) THEN Exc("HTTPException", 500, "Internal server error.")
    ELSE e

\* ------------------------------------------------------------- WS /ws/ai
\* Frames the server sends; msg is the number of the message they answer.
ProcessingFrame(m) ==
    [kind |-> "processing", msg |-> m, error |-> "", response |-> Unset,
     audio_length |-> Unset]
ResponseFrame(m, text, audio) ==
    [kind |-> "response", msg |-> m, error |-> "", response |-> text,
     audio_length |-> audio]
ErrorFrame(m, text) ==
    [kind |-> "error", msg |-> m, error |-> text, response |-> Unset,
     audio_length |-> Unset]

\* Events a connection delivers to receive_text, in arrival order.
TextEvent(m, text) == [type |-> "text", msg |-> m, text |-> text]
BytesEvent(m) == [type |-> "bytes", msg |-> m, text |-> ""]
DisconnectEvent == [type |-> "disconnect", msg |-> 0, text |-> ""]

\* receive_text takes the oldest event of the connection.
NextEvent(q) == [ev |-> Head(q), rest |-> Tail(q)]

\* What receive_text does with an event: a text frame is returned, a
\* disconnect raises WebSocketDisconnect, a binary frame has no "text" key.
ReceiveText(ev) ==
    IF ev.type = "text" THEN NoExc
    ELSE IF ev.type = "disconnect" THEN Exc("WebSocketDisconnect", 0, "")
    ELSE Exc("KeyError", 0, "text")

\* What send_json can do: it succeeds while the peer is there; once the
\* peer is gone it raises WebSocketDisconnect or another error, or the
\* frame is dropped without an error, depending on the server stack.
SendOutcomes(peerState) ==
    IF peerState = "connected" THEN {NoExc}
    ELSE {NoExc, Exc("WebSocketDisconnect", 0, ""), Exc("RuntimeError", 0, "")}

\* Lines 150-153: an exception that leaves the loop ends the handler.
WsOuterExcept(e) ==
    IF CaughtByWebSocketDisconnect(e) THEN "disconnect"
    ELSE IF CaughtByException(e) THEN "error"
    ELSE "uncaught"

\* Lines 136-146 up to the synthesis call.
WsTryBody_anystatus(resp) ==
    IF resp.exc THEN [next |-> "raise", text |-> Unset]
    ELSE IF ExtractText(resp).raised THEN [next |-> "tts", text |-> Str("")]
    ELSE [next |-> "tts", text |-> ExtractText(resp).val]

WsTryBody_nosynth(resp) ==
    IF resp.exc THEN [next |-> "raise", text |-> Unset]
    ELSE IF resp.status_code = 200
         THEN [next |-> "raise", text |-> Unset]
         ELSE [next |-> "error_frame", text |-> Unset]

WsTryBody(resp) ==
    IF resp.exc THEN [next |-> "raise", text |-> Unset]
    ELSE IF resp.status_code = 200
         THEN IF ExtractText(resp).raised
              THEN [next |-> "raise", text |-> Unset]
              ELSE [next |-> "tts", text |-> ExtractText(resp).val]
         ELSE [next |-> "error_frame", text |-> Unset]

\* Where the loop goes after a send inside the inner try (lines 144, 146):
\* back to receive_text, or into the inner handler (line 147).
WsAfterInnerSend_both(e) == "send_generic_error"

WsAfterInnerSend_break(e) == IF e = NoExc THEN "closed" ELSE "send_generic_error"

WsAfterInnerSend(e) == IF e = NoExc THEN "recv" ELSE "send_generic_error"

\* Where the handler goes when the synthesis call is back (line 144).
WsAfterTts_skip == "recv"

WsAfterTts_again == "send_processing"

WsAfterTts == "send_result"

\* ------------------------------------------------------------- state
VARIABLES
    config,     \* OPENAI_API_KEY and TTS_SERVER_URL as os.getenv gave them
    server,     \* "starting", "serving" or "aborted" (RuntimeError at import)
    busy,       \* the task inside a blocking requests.post, or NoTask
    pc,         \* where each task is
    ex,         \* the local variables of each task's current exchange
    http,       \* the answer of each POST /chat request
    frames,     \* the frames each session has sent
    inbox,      \* the events each connection holds for receive_text
    peer,       \* "connected" or "gone", for each connection
    arrived,    \* how many frames each peer has sent
    ended,      \* why each session's handler returned
    goneAt      \* where each session's handler was, and on which message,
                \* when its peer closed

vars == << config, server, busy, pc, ex, http, frames, inbox, peer, arrived, ended,
           goneAt >>

\* The messages of the completion request: persona, then the input.
Payload_memory(input) ==
    IF \E s \in Sessions : frames[s] # << >>
    THEN << [role |-> "system", content |-> system_message],
            [role |-> "assistant", content |-> "earlier answer"],
            [role |-> "user", content |-> input] >>
    ELSE << [role |-> "system", content |-> system_message],
            [role |-> "user", content |-> input] >>

Payload(input) == << [role |-> "system", content |-> system_message],
                     [role |-> "user", content |-> input] >>
NoPayload == << >>

\* The locals of one exchange; nComp and nTts count its outbound calls.
NewExchange ==
    [user_input |-> "", msg |-> 0, payload |-> NoPayload,
     comp |-> NoResp, tts |-> NoResp,
     text_response |-> Unset, audio_length |-> Unset,
     nComp |-> 0, nTts |-> 0]

Init ==
    /\ config \in [OPENAI_API_KEY : EnvValues, TTS_SERVER_URL : EnvValues]
    /\ server = "starting"
    /\ busy = NoTask
    /\ pc = [t \in Tasks |-> "new"]
    /\ ex = [t \in Tasks |-> NewExchange]
    /\ http = [p \in Posts |-> NoHttp]
    /\ frames = [s \in Sessions |-> << >>]
    /\ inbox = [s \in Sessions |-> << >>]
    /\ peer = [s \in Sessions |-> "connected"]
    /\ arrived = [s \in Sessions |-> 0]
    /\ ended = [s \in Sessions |-> "no"]
    /\ goneAt = [s \in Sessions |-> [at |-> "no", msg |-> 0]]

\* A step of a coroutine needs the thread of the event loop.
ThreadFree == busy = NoTask

\* ------------------------------------------------------------- startup
\* Lines 13-25: load the configuration, abort when a value is absent.
Startup ==
    /\ server = "starting"
    /\ server' = IF ConfigLoaded(config) THEN "serving" ELSE "aborted"
    /\ UNCHANGED << config, busy, pc, ex, http, frames, inbox, peer, arrived, ended, goneAt >>

\* ------------------------------------------------------------- POST /chat
\* Lines 62-83: the request arrives, the payload is built and the
\* completion call is issued; requests.post blocks the thread.
ChatStart(p, input) ==
    /\ server = "serving"
    /\ ThreadFree
    /\ pc[p] = "new"
    /\ ex' = [ex EXCEPT ![p] = [NewExchange EXCEPT !.user_input = input,
                                                   !.payload = Payload(input),
                                                   !.nComp = 1]]
    /\ pc' = [pc EXCEPT ![p] = "comp_wait"]
    /\ busy' = p
    /\ UNCHANGED << config, server, http, frames, inbox, peer, arrived, ended, goneAt >>

\* Lines 83-101: the completion call returns; on success the synthesis
\* call is issued (line 93, inside generate_tts_audio at line 164).
ChatCompletionReturn(p, resp) ==
    /\ pc[p] = "comp_wait"
    /\ busy = p
    /\ LET r == ChatTryBody(resp) IN
       IF r.next = "tts"
       THEN /\ ex' = [ex EXCEPT ![p].comp = resp, ![p].text_response = r.text,
                                ![p].nTts = @ + 1]
            /\ pc' = [pc EXCEPT ![p] = "tts_wait"]
            /\ UNCHANGED << busy, http >>
       ELSE /\ ex' = [ex EXCEPT ![p].comp = resp]
            /\ pc' = [pc EXCEPT ![p] = "done"]
            /\ http' = [http EXCEPT ![p] = HttpError(ChatExcept(r.exc))]
            /\ busy' = NoTask
    /\ UNCHANGED << config, server, frames, inbox, peer, arrived, ended, goneAt >>

\* Lines 93-94: generate_tts_audio returns and the handler returns.
ChatTtsReturn(p, resp) ==
    /\ pc[p] = "tts_wait"
    /\ busy = p
    /\ ex' = [ex EXCEPT ![p].tts = resp, ![p].audio_length = generate_tts_audio(resp)]
    /\ http' = [http EXCEPT ![p] = HttpOk(ex[p].text_response, generate_tts_audio(resp))]
    /\ pc' = [pc EXCEPT ![p] = "done"]
    /\ busy' = NoTask
    /\ UNCHANGED << config, server, frames, inbox, peer, arrived, ended, goneAt >>

\* ------------------------------------------------------------- the peers
\* A peer sends a text frame or a binary frame.
PeerSend(s, ev) ==
    /\ server = "serving"
    /\ pc[s] # "new"
    /\ peer[s] = "connected"
    /\ ended[s] = "no"
    /\ arrived[s] < MaxMsgs
    /\ arrived' = [arrived EXCEPT ![s] = @ + 1]
    /\ inbox' = [inbox EXCEPT ![s] = Append(@, ev)]
    /\ UNCHANGED << config, server, busy, pc, ex, http, frames, peer, ended, goneAt >>

\* A peer closes its side of the connection.
PeerDisconnect(s) ==
    /\ server = "serving"
    /\ pc[s] # "new"
    /\ peer[s] = "connected"
    /\ ended[s] = "no"
    /\ peer' = [peer EXCEPT ![s] = "gone"]
    /\ goneAt' = [goneAt EXCEPT ![s] = [at |-> pc[s], msg |-> ex[s].msg]]
    /\ inbox' = [inbox EXCEPT ![s] = Append(@, DisconnectEvent)]
    /\ UNCHANGED << config, server, busy, pc, ex, http, frames, arrived, ended >>

\* ------------------------------------------------------------- WS /ws/ai
\* Line 109: the connection is accepted.
WsAccept(s) ==
    /\ server = "serving"
    /\ ThreadFree
    /\ pc[s] = "new"
    /\ pc' = [pc EXCEPT ![s] = "recv"]
    /\ UNCHANGED << config, server, busy, ex, http, frames, inbox, peer, arrived, ended, goneAt >>

\* The handler returns (lines 150-153).
WsEnd_continue(s, e) ==
    /\ pc' = [pc EXCEPT ![s] = "recv"]
    /\ ended' = ended

WsEnd(s, e) ==
    /\ pc' = [pc EXCEPT ![s] = "closed"]
    /\ ended' = [ended EXCEPT ![s] = WsOuterExcept(e)]

\* Line 114: receive_text gives the next event of the connection.
WsReceive(s) ==
    /\ ThreadFree
    /\ pc[s] = "recv"
    /\ inbox[s] # << >>
    /\ LET n == NextEvent(inbox[s])
           e == ReceiveText(n.ev) IN
       /\ inbox' = [inbox EXCEPT ![s] = n.rest]
       /\ IF e = NoExc
          THEN /\ ex' = [ex EXCEPT ![s] = [NewExchange EXCEPT !.user_input = n.ev.text,
                                                              !.msg = n.ev.msg]]
               /\ pc' = [pc EXCEPT ![s] = "send_processing"]
               /\ UNCHANGED ended
          ELSE /\ ex' = [ex EXCEPT ![s] = NewExchange]
               /\ WsEnd(s, e)
    /\ UNCHANGED << config, server, busy, http, frames, peer, arrived, goneAt >>

\* Lines 118-136: the processing signal is sent, then the payload is built
\* and the completion call is issued; requests.post blocks the thread.
WsSendProcessing(s, e) ==
    /\ ThreadFree
    /\ pc[s] = "send_processing"
    /\ e \in SendOutcomes(peer[s])
    /\ IF e = NoExc
       THEN /\ frames' = [frames EXCEPT ![s] = Append(@, ProcessingFrame(ex[s].msg))]
            /\ ex' = [ex EXCEPT ![s].payload = Payload(ex[s].user_input),
                                ![s].nComp = @ + 1]
            /\ pc' = [pc EXCEPT ![s] = "comp_wait"]
            /\ busy' = s
            /\ UNCHANGED ended
       ELSE /\ WsEnd(s, e)
            /\ UNCHANGED << frames, ex, busy >>
    /\ UNCHANGED << config, server, http, inbox, peer, arrived, goneAt >>

\* Lines 136-149: the completion call returns; on success the synthesis
\* call is issued (line 142), else the handler goes on to send a frame.
WsCompletionReturn(s, resp) ==
    /\ pc[s] = "comp_wait"
    /\ busy = s
    /\ LET r == WsTryBody(resp) IN
       IF r.next = "tts"
       THEN /\ ex' = [ex EXCEPT ![s].comp = resp, ![s].text_response = r.text,
                                ![s].nTts = @ + 1]
            /\ pc' = [pc EXCEPT ![s] = "tts_wait"]
            /\ UNCHANGED << busy, ended >>
       ELSE /\ ex' = [ex EXCEPT ![s].comp = resp]
            /\ pc' = [pc EXCEPT ![s] = IF r.next = "error_frame" THEN "send_error"
                                       ELSE "send_generic_error"]
            /\ busy' = NoTask
            /\ UNCHANGED ended
    /\ UNCHANGED << config, server, http, frames, inbox, peer, arrived, goneAt >>

\* Line 142: generate_tts_audio returns.
WsTtsReturn(s, resp) ==
    /\ pc[s] = "tts_wait"
    /\ busy = s
    /\ ex' = [ex EXCEPT ![s].tts = resp, ![s].audio_length = generate_tts_audio(resp)]
    /\ pc' = [pc EXCEPT ![s] = WsAfterTts]
    /\ busy' = NoTask
    /\ UNCHANGED << config, server, http, frames, inbox, peer, arrived, ended, goneAt >>

\* Line 144: the response frame is sent, inside the inner try.
WsSendResult(s, e) ==
    /\ ThreadFree
    /\ pc[s] = "send_result"
    /\ e \in SendOutcomes(peer[s])
    /\ frames' = [frames EXCEPT ![s] =
          IF e = NoExc
          THEN Append(@, ResponseFrame(ex[s].msg, ex[s].text_response, ex[s].audio_length))
          ELSE @]
    /\ pc' = [pc EXCEPT ![s] = WsAfterInnerSend(e)]
    /\ UNCHANGED << config, server, busy, ex, http, inbox, peer, arrived, ended, goneAt >>

\* Line 146: the error frame with the upstream body, inside the inner try.
WsSendError(s, e) ==
    /\ ThreadFree
    /\ pc[s] = "send_error"
    /\ e \in SendOutcomes(peer[s])
    /\ frames' = [frames EXCEPT ![s] =
          IF e = NoExc THEN Append(@, ErrorFrame(ex[s].msg, ex[s].comp.text)) ELSE @]
    /\ pc' = [pc EXCEPT ![s] = WsAfterInnerSend(e)]
    /\ UNCHANGED << config, server, busy, ex, http, inbox, peer, arrived, ended, goneAt >>

\* Lines 147-149: the inner handler sends the generic error frame; an
\* exception of this send leaves the loop.
WsSendGenericError(s, e) ==
    /\ ThreadFree
    /\ pc[s] = "send_generic_error"
    /\ e \in SendOutcomes(peer[s])
    /\ IF e = NoExc
       THEN /\ frames' = [frames EXCEPT ![s] =
                             Append(@, ErrorFrame(ex[s].msg, "Internal server error."))]
            /\ pc' = [pc EXCEPT ![s] = "recv"]
            /\ UNCHANGED ended
       ELSE /\ WsEnd(s, e)
            /\ UNCHANGED frames
    /\ UNCHANGED << config, server, busy, ex, http, inbox, peer, arrived, goneAt >>

\* ------------------------------------------------------------- specification
PeerEvents(s) ==
    {TextEvent(arrived[s] + 1, InputOf(arrived[s] + 1)), BytesEvent(arrived[s] + 1)}

AllSendOutcomes == SendOutcomes("connected") \cup SendOutcomes("gone")

\* The steps of task t alone.
TaskStep(t) ==
    \/ /\ t \in Posts
       /\ \/ \E input \in Inputs : ChatStart(t, input)
          \/ \E resp \in CompResponses : ChatCompletionReturn(t, resp)
          \/ \E resp \in TtsResponses : ChatTtsReturn(t, resp)
    \/ /\ t \in Sessions
       /\ \/ WsAccept(t)
          \/ WsReceive(t)
          \/ \E e \in AllSendOutcomes : WsSendProcessing(t, e)
          \/ \E resp \in CompResponses : WsCompletionReturn(t, resp)
          \/ \E resp \in TtsResponses : WsTtsReturn(t, resp)
          \/ \E e \in AllSendOutcomes : WsSendResult(t, e)
          \/ \E e \in AllSendOutcomes : WsSendError(t, e)
          \/ \E e \in AllSendOutcomes : WsSendGenericError(t, e)

Next ==
    \/ Startup
    \/ \E p \in Posts, input \in Inputs : ChatStart(p, input)
    \/ \E p \in Posts, resp \in CompResponses : ChatCompletionReturn(p, resp)
    \/ \E p \in Posts, resp \in TtsResponses : ChatTtsReturn(p, resp)
    \/ \E s \in Sessions : \E ev \in PeerEvents(s) : PeerSend(s, ev)
    \/ \E s \in Sessions : PeerDisconnect(s)
    \/ \E s \in Sessions : WsAccept(s)
    \/ \E s \in Sessions : WsReceive(s)
    \/ \E s \in Sessions, e \in AllSendOutcomes : WsSendProcessing(s, e)
    \/ \E s \in Sessions, resp \in CompResponses : WsCompletionReturn(s, resp)
    \/ \E s \in Sessions, resp \in TtsResponses : WsTtsReturn(s, resp)
    \/ \E s \in Sessions, e \in AllSendOutcomes : WsSendResult(s, e)
    \/ \E s \in Sessions, e \in AllSendOutcomes : WsSendError(s, e)
    \/ \E s \in Sessions, e \in AllSendOutcomes : WsSendGenericError(s, e)

Spec == Init /\ [][Next]_vars

\* The event loop runs every coroutine that can go on, and an outbound
\* call that was issued comes back (with an answer or an exception).
FairSpec == Spec /\ \A t \in Tasks : WF_vars(TaskStep(t))

\* ------------------------------------------------------------- the claims
\* How an answer of the completion service counts for the claims.
CompletionNonSuccess(r) == r # NoResp /\ ~r.exc /\ r.status_code # 200
CompletionExtracted(r) ==
    r # NoResp /\ ~r.exc /\ r.status_code = 200 /\ r.json = "object" /\ r.has
CompletionText(r) == CompletionExtracted(r) /\ r.val.t = "str"
CompletionFailed(r) == r # NoResp /\ ~CompletionExtracted(r)

\* How an answer of the speech service counts for the claims.
SynthesisFailed(r) == r # NoResp /\ (r.exc \/ r.status_code # 200 \/ r.json # "object")
SynthesisSucceeded(r) ==
    r # NoResp /\ ~r.exc /\ r.status_code = 200 /\ r.json = "object" /\ r.has
    /\ r.val.t = "num"

LastFrame(s) == frames[s][Len(frames[s])]
Terminal(f) == f.kind \in {"response", "error"}
HasTerminal(s, m) == \E i \in 1..Len(frames[s]) : Terminal(frames[s][i]) /\ frames[s][i].msg = m
ExchangeOver(s) == pc[s] \in {"recv", "closed"} /\ ex[s].msg > 0

\* C1: POST /chat, completion service answers a non-success status: the
\* request fails with a server error whose detail is the upstream body.
C1_UpstreamDetailCarried ==
    \A p \in Posts :
        (pc[p] = "done" /\ CompletionNonSuccess(ex[p].comp))
        => (http[p].status_code >= 500 /\ http[p].detail = ex[p].comp.text)

C3_ErrorFrameAndContinue ==
    \A s \in Sessions :
        (CompletionNonSuccess(ex[s].comp) /\ peer[s] = "connected")
        => /\ pc[s] \in {"send_error", "recv"}
           /\ ended[s] = "no"
           /\ pc[s] = "recv" => LastFrame(s) = ErrorFrame(ex[s].msg, ex[s].comp.text)

\* A message after the one answered by the error frame has been processed.
C3_Witness ==
    \E s \in Sessions :
        /\ Len(frames[s]) = 4
        /\ frames[s][2] = ErrorFrame(1, "rate limited")
        /\ frames[s][4].msg = 2 /\ Terminal(frames[s][4])
        /\ pc[s] = "recv"

\* C4: the handler of /ws/ai returns only when its peer has disconnected.
C4_ExitOnlyOnDisconnect ==
    \A s \in Sessions : pc[s] = "closed" => peer[s] = "gone"

HasWork(t) ==
    \/ pc[t] = "new" /\ server = "serving"
    \/ t \in Sessions /\ pc[t] = "recv" /\ inbox[t] # << >>
    \/ t \in Sessions
       /\ pc[t] \in {"send_processing", "send_result", "send_error", "send_generic_error"}

C6_OthersProgress ==
    \A t \in Tasks : \A u \in Tasks \ {t} :
        (pc[t] \in {"comp_wait", "tts_wait"} /\ HasWork(u)) => ENABLED TaskStep(u)

\* C7: completion gave text T and synthesis gave duration D: POST /chat
\* answers 200 with exactly T and D, the session sends the response frame
\* with exactly T and D.
C7_ResultIsTextAndDuration ==
    /\ \A p \in Posts :
          (pc[p] = "done" /\ CompletionText(ex[p].comp) /\ SynthesisSucceeded(ex[p].tts))
          => http[p] = HttpOk(ex[p].comp.val, ex[p].tts.val)
    /\ \A s \in Sessions :
          (CompletionText(ex[s].comp) /\ SynthesisSucceeded(ex[s].tts))
          => /\ pc[s] # "send_error"
             /\ pc[s] = "send_generic_error" => peer[s] = "gone"
             /\ pc[s] = "send_result" =>
                   /\ ex[s].text_response = ex[s].comp.val
                   /\ ex[s].audio_length = ex[s].tts.val
             /\ (pc[s] = "recv" /\ peer[s] = "connected") =>
                   LastFrame(s) = ResponseFrame(ex[s].msg, ex[s].comp.val, ex[s].tts.val)

C7_Witness ==
    /\ \E p \in Posts : http[p] = HttpOk(Str("hi there"), Num(25))
    /\ \E s \in Sessions :
          /\ pc[s] = "recv" /\ peer[s] = "connected"
          /\ CompletionText(ex[s].comp) /\ SynthesisSucceeded(ex[s].tts)
          /\ LastFrame(s) = ResponseFrame(ex[s].msg, Str("hi there"), Num(25))

\* C8: whatever the speech service answers, generate_tts_audio gives a
\* number, and the number 0 unless the service reported a duration.
C8_DurationAlwaysNumeric ==
    \A t \in Tasks :
        ex[t].tts # NoResp
        => /\ ex[t].audio_length.t = "num"
           /\ ~SynthesisSucceeded(ex[t].tts) => ex[t].audio_length = Num(0)

\* C9: one session handles its messages one at a time in arrival order:
\* the message in hand is the next in arrival order, every earlier message
\* has its result or error frame already, and these frames are in the
\* order of the messages.
C9_OneAtATimeInOrder ==
    \A s \in Sessions :
        /\ \A k \in 1..(ex[s].msg - 1) : HasTerminal(s, k)
        /\ \A i \in 1..Len(frames[s]) : \A j \in (i + 1)..Len(frames[s]) :
              /\ frames[s][i].msg <= frames[s][j].msg
              /\ (Terminal(frames[s][i]) /\ Terminal(frames[s][j]))
                 => frames[s][i].msg < frames[s][j].msg
        /\ \A i \in 1..Len(inbox[s]) :
              inbox[s][i].type # "disconnect" => inbox[s][i].msg > ex[s].msg

\* Two messages were waiting at once and both have been answered.
C9_Witness ==
    \E s \in Sessions :
        /\ HasTerminal(s, 1) /\ HasTerminal(s, 2)
        /\ ex[s].msg = 2 /\ pc[s] = "recv"

\* C10 as stated: a peer that closes after its message was received and
\* before the result frame is sent leaves the exchange whole: the
\* completion call is made and returns and, on success, so does synthesis.
InExchange == {"send_processing", "comp_wait", "tts_wait", "send_result", "send_error",
               "send_generic_error"}

C10_DisconnectNeverAborts ==
    \A s \in Sessions :
        (goneAt[s].at \in InExchange /\ goneAt[s].msg = ex[s].msg /\ ExchangeOver(s))
        => /\ ex[s].nComp = 1 /\ ex[s].comp # NoResp
           /\ CompletionExtracted(ex[s].comp) => (ex[s].nTts = 1 /\ ex[s].tts # NoResp)

\* C10 amended: a peer that closes once the processing signal is out
\* (during the completion call, the synthesis call or later) leaves the
\* exchange whole: both calls are made and return as without the close.
C10_DisconnectAfterSignalNeverAborts ==
    \A s \in Sessions :
        (goneAt[s].at \in InExchange \ {"send_processing"}
         /\ goneAt[s].msg = ex[s].msg /\ ExchangeOver(s))
        => /\ ex[s].nComp = 1 /\ ex[s].comp # NoResp
           /\ CompletionExtracted(ex[s].comp) => (ex[s].nTts = 1 /\ ex[s].tts # NoResp)

C10_Witness ==
    \E s \in Sessions :
        /\ goneAt[s].at = "comp_wait" /\ goneAt[s].msg = ex[s].msg
        /\ pc[s] = "closed" /\ ex[s].nTts = 1 /\ ex[s].tts # NoResp

\* C12: a failure of an exchange that is not an upstream non-success
\* status (the completion call raises, or its 200 body has no content to
\* extract) reaches the caller as the fixed text alone: POST /chat answers
\* 500 "Internal server error.", the session sends that text as its error
\* frame.
CompletionRaised(r) ==
    r # NoResp /\ (r.exc \/ (r.status_code = 200 /\ ~CompletionExtracted(r)))

C12_GenericMessageOnly ==
    /\ \A p \in Posts :
          (pc[p] = "done" /\ CompletionRaised(ex[p].comp))
          => http[p] = HttpError(Exc("HTTPException", 500, "Internal server error."))
    /\ \A s \in Sessions :
          CompletionRaised(ex[s].comp)
          => /\ pc[s] \in {"send_generic_error", "recv", "closed"}
             /\ (pc[s] = "recv" /\ peer[s] = "connected")
                => LastFrame(s) = ErrorFrame(ex[s].msg, "Internal server error.")
             /\ \A i \in 1..Len(frames[s]) :
                   (frames[s][i].msg = ex[s].msg /\ frames[s][i].kind = "error")
                   => frames[s][i].error = "Internal server error."

C12_Witness ==
    /\ \E p \in Posts :
          /\ pc[p] = "done" /\ ex[p].comp.exc
          /\ http[p].detail = "Internal server error."
    /\ \E s \in Sessions :
          /\ pc[s] = "recv" /\ peer[s] = "connected"
          /\ ex[s].comp.status_code = 200 /\ CompletionRaised(ex[s].comp)
          /\ LastFrame(s) = ErrorFrame(ex[s].msg, "Internal server error.")

\* C13: the completion request of an exchange is the persona followed by
\* the input of that exchange and nothing else, whatever was handled
\* before on this or another connection.
C13_RequestFromInputAlone ==
    /\ \A t \in Tasks :
          ex[t].payload # NoPayload
          => ex[t].payload = << [role |-> "system", content |-> system_message],
                                [role |-> "user", content |-> ex[t].user_input] >>
    /\ \A s \in Sessions : ex[s].msg > 0 => ex[s].user_input = InputOf(ex[s].msg)

\* The same input after different histories, and a second message whose
\* request does not carry the first.
C13_Witness ==
    \E s \in Sessions : \E p \in Posts :
        /\ ex[s].msg = 2 /\ ex[s].payload # NoPayload
        /\ HasTerminal(s, 1)
        /\ ex[p].payload # NoPayload
        /\ ex[p].user_input = InputOf(1)

\* C14: requests and connections are handled only when both configuration
\* values are present; with one absent (unset or empty) the process aborts
\* and handles nothing.
BothPresent == config.OPENAI_API_KEY = "value" /\ config.TTS_SERVER_URL = "value"

C14_ServesOnlyWhenConfigured ==
    /\ server = "serving" => BothPresent
    /\ (\E t \in Tasks : pc[t] # "new") => BothPresent
    /\ (server # "starting" /\ ~BothPresent) => server = "aborted"

C14_Witness ==
    /\ server = "aborted"
    /\ config.OPENAI_API_KEY = "value" /\ config.TTS_SERVER_URL = ""

\* C15: no retries: an exchange makes one completion call and at most one
\* synthesis call, whatever the calls give.
C15_NoRetries ==
    /\ \A t \in Tasks :
          /\ ex[t].nComp <= 1 /\ ex[t].nTts <= 1
          /\ ex[t].comp # NoResp => ex[t].nComp = 1
          /\ ex[t].tts # NoResp => ex[t].nTts = 1
    /\ \A p \in Posts : pc[p] \in {"comp_wait", "tts_wait", "done"} => ex[p].nComp = 1
    /\ \A s \in Sessions :
          pc[s] \in {"comp_wait", "tts_wait", "send_result", "send_error",
                     "send_generic_error"} => ex[s].nComp = 1

C15_Witness ==
    /\ \E p \in Posts : pc[p] = "done" /\ ex[p].comp.exc /\ ex[p].nComp = 1
    /\ \E s \in Sessions :
          /\ pc[s] = "recv" /\ ex[s].nComp = 1 /\ ex[s].nTts = 1
          /\ SynthesisFailed(ex[s].tts)

\* C16: while its peer is there, a session answers each text message with
\* the processing frame, sent before the completion call, and then one
\* result or error frame.
C16_FrameProtocol ==
    \A s \in Sessions :
        peer[s] = "connected"
        => /\ \A i \in 1..Len(frames[s]) :
                 IF i % 2 = 1
                 THEN frames[s][i] = ProcessingFrame((i + 1) \div 2)
                 ELSE Terminal(frames[s][i]) /\ frames[s][i].msg = i \div 2
           /\ pc[s] = "send_processing" => Len(frames[s]) = 2 * (ex[s].msg - 1)
           /\ pc[s] \in {"comp_wait", "tts_wait", "send_result", "send_error",
                         "send_generic_error"}
              => Len(frames[s]) = 2 * ex[s].msg - 1
           /\ (pc[s] = "recv" /\ ex[s].msg > 0) => Len(frames[s]) = 2 * ex[s].msg

C16_Witness ==
    \E s \in Sessions :
        /\ peer[s] = "connected" /\ pc[s] = "recv"
        /\ Len(frames[s]) = 4
        /\ frames[s][2].kind = "response" /\ frames[s][4].kind = "error"

\* C17: POST /chat answers 200 or 500 and nothing else; an upstream
\* non-success status is answered by 500.
C17_Only200Or500 ==
    \A p \in Posts :
        pc[p] = "done"
        => /\ http[p].status_code \in {200, 500}
           /\ CompletionNonSuccess(ex[p].comp) => http[p].status_code = 500

C17_Witness ==
    \E p \in Posts :
        /\ pc[p] = "done" /\ ex[p].comp.status_code = 429
        /\ http[p].status_code = 500

\* C11 as stated, its part on outbound calls: once the peer has closed, no
\* completion or synthesis call is started for the connection.
CallStartedAfterDisconnect(s) ==
    /\ peer[s] = "gone"
    /\ \/ ex[s].msg > goneAt[s].msg /\ ex[s].nComp > 0
       \/ /\ ex[s].msg = goneAt[s].msg /\ ex[s].msg > 0
          /\ \/ goneAt[s].at = "send_processing" /\ ex[s].nComp > 0
             \/ goneAt[s].at \in {"send_processing", "comp_wait"} /\ ex[s].nTts > 0

====
